---------------------------- MODULE Spec2Model ----------------------------
(***************************************************************************)
(* Model of custom_components/bedrock_conversation/__init__.py:            *)
(*   - HassServiceTool.async_call: validation of a tool request, the       *)
(*     projection of its arguments and the bounded, non-blocking dispatch  *)
(*     to the host's service bus;                                          *)
(*   - async_setup_entry / async_unload_entry: registration of the LLM API *)
(*     and the bookkeeping of hass.data[DOMAIN].                           *)
(* Python strings are sequences of one-character strings, so that split,   *)
(* f-string formatting and substring tests are computed, not assumed.      *)
(***************************************************************************)
EXTENDS Integers, Sequences, FiniteSets, TLC

(***************************************************************************)
(* Bounds of the model.                                                    *)
(***************************************************************************)
\* number of concurrent invocations of HassServiceTool.async_call
NumCalls == 2
\* number of config entries of the integration
NumEntries == 3

Calls == 1..NumCalls
Entries == 1..NumEntries

(***************************************************************************)
(* Program constants.                                                      *)
(***************************************************************************)
\* asyncio.timeout(5.0)
TIMEOUT == 5

\* homeassistant.const.ATTR_ENTITY_ID
ATTR_ENTITY_ID == "entity_id"

ALLOWED_SERVICE_CALL_ARGUMENTS ==
    { "brightness", "brightness_pct", "rgb_color", "temperature", "hvac_mode",
      "target_temp_high", "target_temp_low", "fan_mode", "preset_mode",
      "humidity", "position", "tilt_position", "volume_level",
      "media_content_id", "media_content_type", "value" }

\* const.HOME_LLM_API_ID: an opaque identifier
HOME_LLM_API_ID == "HOME_LLM_API_ID"

\* The allow-lists of const.py.  Their contents are not part of __init__.py;
\* every property is checked for each of these configurations.  In "strict"
\* every allowed service lies in an allowed domain; in "loose" the service
\* list also names a service of a domain that is not allowed.
AllowListConfigs == { "strict", "loose" }

AllowedDomainsOf(c) ==
    { <<"l", "i", "g", "h", "t">>, <<"s", "w", "i", "t", "c", "h">> }

AllowedServicesOf(c) ==
    IF c = "strict"
    THEN { <<"l", "i", "g", "h", "t", ".", "t", "u", "r", "n", "_", "o", "n">>, <<"l", "i", "g", "h", "t", ".", "t", "u", "r", "n", "_", "o", "f", "f">>, <<"s", "w", "i", "t", "c", "h", ".", "t", "o", "g", "g", "l", "e">> }
    ELSE { <<"l", "i", "g", "h", "t", ".", "t", "u", "r", "n", "_", "o", "n">>, <<"l", "i", "g", "h", "t", ".", "t", "u", "r", "n", "_", "o", "f", "f">>, <<"s", "w", "i", "t", "c", "h", ".", "t", "o", "g", "g", "l", "e">>, <<"l", "o", "c", "k", ".", "u", "n", "l", "o", "c", "k">> }

(***************************************************************************)
(* Python values: a type tag and the characters of str(value).             *)
(***************************************************************************)
PyStr(s) == [t |-> "str", v |-> s]
PyInt(s) == [t |-> "int", v |-> s]
PyNone == [t |-> "NoneType", v |-> <<>>]

\* bool(x) as `not service` uses it
Truthy(x) ==
    CASE x.t = "NoneType" -> FALSE
      [] x.t = "str" -> x.v # <<>>
      [] x.t = "int" -> x.v # <<"0">>

\* f"{x}"
Format(x) == IF x.t = "NoneType" THEN <<"N", "o", "n", "e">> ELSE x.v

\* dict.get(key)
Get(args, key) == IF key \in DOMAIN args THEN args[key] ELSE PyNone

\* index of the first "." of s, 0 if there is none
FirstDot(s) ==
    IF \E k \in 1..Len(s) : s[k] = "."
    THEN CHOOSE k \in 1..Len(s) : s[k] = "." /\ \A j \in 1..(k - 1) : s[j] # "."
    ELSE 0

\* s.split(".", 1)
Split(s) ==
    LET d == FirstDot(s)
    IN  IF d = 0 THEN << s >>
        ELSE << SubSeq(s, 1, d - 1), SubSeq(s, d + 1, Len(s)) >>

\* sub in s, for Python strings
Contains(s, sub) ==
    \E k \in 0..(Len(s) - Len(sub)) : SubSeq(s, k + 1, k + Len(sub)) = sub

(***************************************************************************)
(* The requests the model draws tool_args from.                            *)
(***************************************************************************)
EmptyArgs == [k \in {} |-> PyNone]

Args2(s, d) == ("service" :> s) @@ ("target_device" :> d)

Requests ==
    { EmptyArgs,
      ("service" :> PyStr(<<"l", "i", "g", "h", "t", ".", "t", "u", "r", "n", "_", "o", "n">>)),
      Args2(PyStr(<<>>), PyStr(<<"l", "i", "g", "h", "t", ".", "l", "a", "m", "p">>)),
      Args2(PyStr(<<"l", "i", "g", "h", "t", ".", "t", "u", "r", "n", "_", "o", "n">>), PyStr(<<>>)),
      Args2(PyStr(<<"l", "i", "g", "h", "t">>), PyStr(<<"l", "i", "g", "h", "t", ".", "l", "a", "m", "p">>)),
      Args2(PyStr(<<"l", "o", "c", "k", ".", "u", "n", "l", "o", "c", "k">>), PyStr(<<"l", "o", "c", "k", ".", "d", "o", "o", "r">>)),
      Args2(PyStr(<<"l", "i", "g", "h", "t", ".", "d", "i", "m">>), PyStr(<<"l", "i", "g", "h", "t", ".", "l", "a", "m", "p">>)),
      Args2(PyStr(<<"l", "i", "g", "h", "t", ".", "t", "u", "r", "n", "_", "o", "n", ".", "n", "o", "w">>), PyStr(<<"l", "i", "g", "h", "t", ".", "l", "a", "m", "p">>)),
      Args2(PyInt(<<"1", "2", "3">>), PyStr(<<"l", "i", "g", "h", "t", ".", "l", "a", "m", "p">>)),
      Args2(PyStr(<<"s", "w", "i", "t", "c", "h", ".", "t", "o", "g", "g", "l", "e">>), PyStr(<<"s", "w", "i", "t", "c", "h", ".", "f", "a", "n">>)),
      Args2(PyStr(<<"l", "i", "g", "h", "t", ".", "t", "u", "r", "n", "_", "o", "n">>), PyStr(<<"l", "i", "g", "h", "t", ".", "l", "a", "m", "p">>))
        @@ ("brightness" :> PyInt(<<"1", "2", "0">>)) @@ ("unknown_key" :> PyStr(<<"x">>)) }

\* the exceptions the host's services.async_call may raise
DispatchExceptions ==
    { [type |-> "ServiceNotFound", msg |-> <<"S", "e", "r", "v", "i", "c", "e", " ", "n", "o", "t", " ", "f", "o", "u", "n", "d">>],
      [type |-> "TimeoutError", msg |-> <<>>] }

VARIABLES
    cfg,            \* which allow-list configuration const.py holds
    tool_args,      \* tool_input.tool_args of each invocation
    pc,             \* "idle", "awaiting", "returned" or "raised"
    elapsed,        \* time units spent inside asyncio.timeout
    nDispatch,      \* calls of hass.services.async_call made by each invocation
    bus_calls,      \* the calls of hass.services.async_call issued so far
    bus_accepted,   \* those of them the host has taken into its queue
    outcome,        \* how the dispatch call of each invocation ended
    results,        \* the results each invocation has returned
    raised,         \* the exception an invocation has raised to its caller
    llm_apis,       \* the ids of the host's registered LLM APIs
    hass_data,      \* hass.data: whether DOMAIN is a key, and hass.data[DOMAIN]
    entry_state,    \* the host's state of each config entry
    setup_pc,       \* position of the running setup or unload of each entry
    runtime_data,   \* whether entry.runtime_data["client"] is set
    listeners       \* update listeners registered for each entry

callVars == << cfg, tool_args, pc, elapsed, nDispatch, bus_calls, bus_accepted,
               outcome, results, raised >>
setupVars == << llm_apis, hass_data, entry_state, setup_pc, runtime_data, listeners >>
vars == << cfg, tool_args, pc, elapsed, nDispatch, bus_calls, bus_accepted,
           outcome, results, raised,
           llm_apis, hass_data, entry_state, setup_pc, runtime_data, listeners >>

SERVICE_TOOL_ALLOWED_DOMAINS == AllowedDomainsOf(cfg)
SERVICE_TOOL_ALLOWED_SERVICES == AllowedServicesOf(cfg)

Init ==
    /\ cfg \in AllowListConfigs
    /\ tool_args = [i \in Calls |-> EmptyArgs]
    /\ pc = [i \in Calls |-> "idle"]
    /\ elapsed = [i \in Calls |-> 0]
    /\ nDispatch = [i \in Calls |-> 0]
    /\ bus_calls = {}
    /\ bus_accepted = {}
    /\ outcome = [i \in Calls |-> "none"]
    /\ results = [i \in Calls |-> <<>>]
    /\ raised = [i \in Calls |-> "none"]
    /\ llm_apis = << "assist" >>
    /\ hass_data = [present |-> FALSE, entries |-> {}]
    /\ entry_state = [e \in Entries |-> "not_loaded"]
    /\ setup_pc = [e \in Entries |-> "idle"]
    /\ runtime_data = [e \in Entries |-> FALSE]
    /\ listeners = [e \in Entries |-> 0]

(***************************************************************************)
(* HassServiceTool.async_call                                              *)
(***************************************************************************)
ErrorResult(error_msg) == [result |-> "error", error |-> error_msg]

SuccessResult(service, target_device) ==
    [ result |-> "success",
      service |-> service,
      target |-> target_device,
      message |-> << "U+2705" >> \o <<" ", "S", "u", "c", "c", "e", "s", "s", "f", "u", "l", "l", "y", " ", "c", "a", "l", "l", "e", "d", " ">> \o Format(service)
                  \o <<" ", "o", "n", " ">> \o Format(target_device) ]

MissingMsg == <<"M", "i", "s", "s", "i", "n", "g", " ", "r", "e", "q", "u", "i", "r", "e", "d", " ", "p", "a", "r", "a", "m", "e", "t", "e", "r", "s", ":", " ", "s", "e", "r", "v", "i", "c", "e", " ", "a", "n", "d", " ", "t", "a", "r", "g", "e", "t", "_", "d", "e", "v", "i", "c", "e">>

InvalidFormatMsg(service) ==
    <<"I", "n", "v", "a", "l", "i", "d", " ", "s", "e", "r", "v", "i", "c", "e", " ", "f", "o", "r", "m", "a", "t", ":", " ">> \o Format(service) \o <<".", " ", "E", "x", "p", "e", "c", "t", "e", "d", " ", "'", "d", "o", "m", "a", "i", "n", ".", "s", "e", "r", "v", "i", "c", "e", "'">>

DomainNotAllowedMsg(domain) ==
    <<"S", "e", "r", "v", "i", "c", "e", " ", "d", "o", "m", "a", "i", "n", " ", "'">> \o domain \o <<"'", " ", "i", "s", " ", "n", "o", "t", " ", "a", "l", "l", "o", "w", "e", "d">>

ServiceNotAllowedMsg(service) ==
    <<"S", "e", "r", "v", "i", "c", "e", " ", "'">> \o Format(service) \o <<"'", " ", "i", "s", " ", "n", "o", "t", " ", "a", "l", "l", "o", "w", "e", "d">>

\* a timeout reported with the text of the generic handler
TimeoutMsgGeneric(service) ==
    <<"E", "r", "r", "o", "r", " ", "c", "a", "l", "l", "i", "n", "g", " ", "s", "e", "r", "v", "i", "c", "e", " ">> \o Format(service) \o <<":", " ">>

TimeoutMsg(service) ==
    <<"T", "i", "m", "e", "o", "u", "t", " ", "c", "a", "l", "l", "i", "n", "g", " ", "s", "e", "r", "v", "i", "c", "e", " ">> \o Format(service) \o <<" ", "(", "t", "o", "o", "k", " ", "m", "o", "r", "e", " ", "t", "h", "a", "n", " ", "5", " ", "s", "e", "c", "o", "n", "d", "s", ")">>

ErrorMsg(service, err) ==
    <<"E", "r", "r", "o", "r", " ", "c", "a", "l", "l", "i", "n", "g", " ", "s", "e", "r", "v", "i", "c", "e", " ">> \o Format(service) \o <<":", " ">> \o err

\* a service_data kept in one dict that all invocations share: the keys an
\* earlier invocation put there are still in it
ServiceDataShared(args) ==
    LET own == DOMAIN args \cap ALLOWED_SERVICE_CALL_ARGUMENTS
        left == UNION { DOMAIN c.service_data : c \in bus_calls } \ { ATTR_ENTITY_ID }
    IN  [ k \in {ATTR_ENTITY_ID} \cup own \cup left |->
            IF k = ATTR_ENTITY_ID THEN Get(args, "target_device")
            ELSE IF k \in own THEN args[k]
            ELSE (CHOOSE c \in bus_calls : k \in DOMAIN c.service_data).service_data[k] ]

\* a service_data that copies every key of tool_args
ServiceDataUnfiltered(args) ==
    [ k \in {ATTR_ENTITY_ID} \cup DOMAIN args |->
        IF k = ATTR_ENTITY_ID THEN Get(args, "target_device") ELSE args[k] ]

\* the loop over tool_args.items() that fills service_data
ServiceData(args) ==
    [ k \in {ATTR_ENTITY_ID} \cup (DOMAIN args \cap ALLOWED_SERVICE_CALL_ARGUMENTS) |->
        IF k = ATTR_ENTITY_ID THEN Get(args, "target_device") ELSE args[k] ]

\* an allow-list check that every service passes
ServiceAllowedAlways(service) == TRUE

\* service in SERVICE_TOOL_ALLOWED_SERVICES
ServiceAllowed(service) == service.v \in SERVICE_TOOL_ALLOWED_SERVICES

\* domain in SERVICE_TOOL_ALLOWED_DOMAINS
DomainAllowed(domain) == domain \in SERVICE_TOOL_ALLOWED_DOMAINS

\* return <result> to the caller of invocation i
Return(i, r) ==
    /\ pc' = [pc EXCEPT ![i] = "returned"]
    /\ results' = [results EXCEPT ![i] = Append(@, r)]
    /\ elapsed' = [elapsed EXCEPT ![i] = 0]

\* await hass.services.async_call(domain, service_name, service_data, blocking=False)
Dispatch(i, domain, service_name, service_data) ==
    /\ nDispatch' = [nDispatch EXCEPT ![i] = @ + 1]
    /\ bus_calls' = bus_calls \cup
         { [ call |-> i, n |-> nDispatch[i] + 1, domain |-> domain,
             service |-> service_name, service_data |-> service_data,
             blocking |-> FALSE ] }
    /\ pc' = [pc EXCEPT ![i] = "awaiting"]

\* async_call from its entry to its first suspension point
AsyncCall(i, args) ==
    /\ pc[i] = "idle"
    /\ tool_args' = [tool_args EXCEPT ![i] = args]
    /\ LET service == Get(args, "service")
           target_device == Get(args, "target_device")
       IN  IF ~Truthy(service) \/ ~Truthy(target_device)
           THEN /\ Return(i, ErrorResult(MissingMsg))
                /\ UNCHANGED << nDispatch, bus_calls, raised >>
           ELSE IF service.t # "str"
           THEN \* service.split raises AttributeError, which no handler catches
                /\ pc' = [pc EXCEPT ![i] = "raised"]
                /\ raised' = [raised EXCEPT ![i] = "AttributeError"]
                /\ UNCHANGED << nDispatch, bus_calls, results, elapsed >>
           ELSE IF Len(Split(service.v)) # 2
           THEN /\ Return(i, ErrorResult(InvalidFormatMsg(service)))
                /\ UNCHANGED << nDispatch, bus_calls, raised >>
           ELSE LET domain == Split(service.v)[1]
                    service_name == Split(service.v)[2]
                IN  IF ~DomainAllowed(domain)
                    THEN /\ Return(i, ErrorResult(DomainNotAllowedMsg(domain)))
                         /\ UNCHANGED << nDispatch, bus_calls, raised >>
                    ELSE IF ~ServiceAllowed(service)
                    THEN /\ Return(i, ErrorResult(ServiceNotAllowedMsg(service)))
                         /\ UNCHANGED << nDispatch, bus_calls, raised >>
                    ELSE /\ Dispatch(i, domain, service_name, ServiceData(args))
                         /\ UNCHANGED << results, elapsed, raised >>
    /\ UNCHANGED << cfg, bus_accepted, outcome >>
    /\ UNCHANGED setupVars


\* the host takes the command of invocation i into its queue
HostAccept(i) ==
    /\ pc[i] = "awaiting"
    /\ \E c \in bus_calls \ bus_accepted :
          /\ c.call = i
          /\ bus_accepted' = bus_accepted \cup {c}
    /\ UNCHANGED << cfg, tool_args, pc, elapsed, nDispatch, bus_calls, outcome,
                    results, raised >>
    /\ UNCHANGED setupVars

\* one time unit passes while invocation i is suspended inside asyncio.timeout
Tick(i) ==
    /\ pc[i] = "awaiting"
    /\ elapsed[i] < TIMEOUT
    /\ elapsed' = [elapsed EXCEPT ![i] = @ + 1]
    /\ UNCHANGED << cfg, tool_args, pc, nDispatch, bus_calls, bus_accepted,
                    outcome, results, raised >>
    /\ UNCHANGED setupVars

\* the code after the async with block: the success result
OnSuccess(i) ==
    /\ Return(i, SuccessResult(Get(tool_args[i], "service"),
                               Get(tool_args[i], "target_device")))
    /\ UNCHANGED << nDispatch, bus_calls, bus_accepted >>

\* a timeout handler that takes the command back from the host's queue
ExceptTimeoutErrorRetract(i) ==
    /\ Return(i, ErrorResult(TimeoutMsg(Get(tool_args[i], "service"))))
    /\ bus_accepted' = { c \in bus_accepted : c.call # i }
    /\ UNCHANGED << nDispatch, bus_calls >>

\* except asyncio.TimeoutError
ExceptTimeoutError(i) ==
    /\ Return(i, ErrorResult(TimeoutMsg(Get(tool_args[i], "service"))))
    /\ UNCHANGED << nDispatch, bus_calls, bus_accepted >>

\* an exception handler that issues the dispatch call again
ExceptExceptionRetry(i, err) ==
    /\ LET parts == Split(Get(tool_args[i], "service").v)
       IN  Dispatch(i, parts[1], parts[2], ServiceData(tool_args[i]))
    /\ elapsed' = [elapsed EXCEPT ![i] = 0]
    /\ UNCHANGED << results, bus_accepted >>

\* except Exception as err
ExceptException(i, err) ==
    /\ Return(i, ErrorResult(ErrorMsg(Get(tool_args[i], "service"), err)))
    /\ UNCHANGED << nDispatch, bus_calls, bus_accepted >>

\* the dispatch call returns within the bound: the host has queued the command
DispatchReturns(i) ==
    /\ pc[i] = "awaiting"
    /\ elapsed[i] < TIMEOUT
    /\ \E c \in bus_accepted : c.call = i /\ c.n = nDispatch[i]
    /\ outcome' = [outcome EXCEPT ![i] = "returned"]
    /\ OnSuccess(i)
    /\ UNCHANGED << cfg, tool_args, raised >>
    /\ UNCHANGED setupVars

\* the bound elapses first: asyncio.timeout cancels the wait and raises TimeoutError
TimeoutElapses(i) ==
    /\ pc[i] = "awaiting"
    /\ elapsed[i] = TIMEOUT
    /\ outcome' = [outcome EXCEPT ![i] = "timeout"]
    /\ ExceptTimeoutError(i)
    /\ UNCHANGED << cfg, tool_args, raised >>
    /\ UNCHANGED setupVars

\* the dispatch call raises within the bound
DispatchRaises(i, exc) ==
    /\ pc[i] = "awaiting"
    /\ elapsed[i] < TIMEOUT
    /\ outcome' = [outcome EXCEPT ![i] = "exception"]
    /\ IF exc.type = "TimeoutError"
       THEN ExceptTimeoutError(i)
       ELSE ExceptException(i, exc.msg)
    /\ UNCHANGED << cfg, tool_args, raised >>
    /\ UNCHANGED setupVars

NextCall ==
    \/ \E i \in Calls : \E args \in Requests : AsyncCall(i, args)
    \/ \E i \in Calls : HostAccept(i)
    \/ \E i \in Calls : Tick(i)
    \/ \E i \in Calls : DispatchReturns(i)
    \/ \E i \in Calls : TimeoutElapses(i)
    \/ \E i \in Calls : \E exc \in DispatchExceptions : DispatchRaises(i, exc)

Spec == Init /\ [][NextCall]_vars

(***************************************************************************)
(* async_setup_entry, async_unload_entry                                   *)
(***************************************************************************)
Range(seq) == { seq[k] : k \in DOMAIN seq }

\* a registration that does not look at the registry first
RegisterApiUnchecked(apis) == Append(apis, HOME_LLM_API_ID)

\* "Register the LLM API if not already registered"
RegisterApi(apis) ==
    IF HOME_LLM_API_ID \notin Range(apis)
    THEN Append(apis, HOME_LLM_API_ID)
    ELSE apis

\* hass.data.setdefault(DOMAIN, {}); hass.data[DOMAIN][entry.entry_id] = entry
StoreEntry(data, e) ==
    [present |-> TRUE, entries |-> data.entries \cup {e}]

\* hass.data[DOMAIN].pop(entry.entry_id)
PopEntry(data, e) ==
    [data EXCEPT !.entries = @ \ {e}]

\* async_setup_entry from its entry to await async_forward_entry_setups.
\* The host sets up an entry that is not loaded, or retries one whose setup failed.
SetupEntry(e) ==
    /\ setup_pc[e] = "idle"
    /\ entry_state[e] \in { "not_loaded", "setup_error" }
    /\ llm_apis' = RegisterApi(llm_apis)
    /\ hass_data' = StoreEntry(hass_data, e)
    /\ runtime_data' = [runtime_data EXCEPT ![e] = TRUE]
    /\ setup_pc' = [setup_pc EXCEPT ![e] = "forward_entry_setups"]
    /\ entry_state' = [entry_state EXCEPT ![e] = "setup_in_progress"]
    /\ UNCHANGED listeners
    /\ UNCHANGED callVars

\* the forwarding returns: the listener is registered and setup returns True
ForwardSetupsReturn(e) ==
    /\ setup_pc[e] = "forward_entry_setups"
    /\ listeners' = [listeners EXCEPT ![e] = @ + 1]
    /\ setup_pc' = [setup_pc EXCEPT ![e] = "idle"]
    /\ entry_state' = [entry_state EXCEPT ![e] = "loaded"]
    /\ UNCHANGED << llm_apis, hass_data, runtime_data >>
    /\ UNCHANGED callVars

\* the forwarding raises: the exception leaves async_setup_entry
ForwardSetupsRaises(e) ==
    /\ setup_pc[e] = "forward_entry_setups"
    /\ setup_pc' = [setup_pc EXCEPT ![e] = "idle"]
    /\ entry_state' = [entry_state EXCEPT ![e] = "setup_error"]
    /\ UNCHANGED << llm_apis, hass_data, runtime_data, listeners >>
    /\ UNCHANGED callVars

\* async_unload_entry up to await async_unload_platforms
UnloadEntry(e) ==
    /\ setup_pc[e] = "idle"
    /\ entry_state[e] = "loaded"
    /\ setup_pc' = [setup_pc EXCEPT ![e] = "unload_platforms"]
    /\ UNCHANGED << llm_apis, hass_data, entry_state, runtime_data, listeners >>
    /\ UNCHANGED callVars

\* async_unload_platforms returns unload_ok; the host then runs the entry's
\* on_unload callbacks (which remove the update listener) if it is True
UnloadPlatformsReturn(e, unload_ok) ==
    /\ setup_pc[e] = "unload_platforms"
    /\ setup_pc' = [setup_pc EXCEPT ![e] = "idle"]
    /\ IF unload_ok
       THEN /\ hass_data' = PopEntry(hass_data, e)
            /\ entry_state' = [entry_state EXCEPT ![e] = "not_loaded"]
            /\ listeners' = [listeners EXCEPT ![e] = 0]
       ELSE /\ entry_state' = [entry_state EXCEPT ![e] = "failed_unload"]
            /\ UNCHANGED << hass_data, listeners >>
    /\ UNCHANGED << llm_apis, runtime_data >>
    /\ UNCHANGED callVars

NextSetup ==
    \/ \E e \in Entries : SetupEntry(e)
    \/ \E e \in Entries : ForwardSetupsReturn(e)
    \/ \E e \in Entries : ForwardSetupsRaises(e)
    \/ \E e \in Entries : UnloadEntry(e)
    \/ \E e \in Entries : \E unload_ok \in BOOLEAN : UnloadPlatformsReturn(e, unload_ok)

SpecSetup == Init /\ [][NextSetup]_vars

(***************************************************************************)
(* Properties.  What a claim expects is written here from the claim's own  *)
(* words, without the operators of the model above.                        *)
(***************************************************************************)
\* the request of invocation i, as its caller passed it
ServiceOf(i) == Get(tool_args[i], "service")
TargetOf(i) == Get(tool_args[i], "target_device")

\* a value that is absent (None) or empty
AbsentOrEmpty(x) == x.t = "NoneType" \/ x.v = <<>>

\* the characters of s before its first ".", all of s if it has none
BeforeFirstDot(s) ==
    LET n == CHOOSE n \in 0..Len(s) :
                 /\ \A k \in 1..n : s[k] # "."
                 /\ n = Len(s) \/ s[n + 1] = "."
    IN  SubSeq(s, 1, n)

HasDot(s) == \E k \in 1..Len(s) : s[k] = "."

\* the first of the four checks a request fails, "pass" if it fails none
FirstFailingCheck(args) ==
    LET service == Get(args, "service")
        target_device == Get(args, "target_device")
    IN  IF AbsentOrEmpty(service) \/ AbsentOrEmpty(target_device) THEN "missing"
        ELSE IF ~HasDot(service.v) THEN "format"
        ELSE IF BeforeFirstDot(service.v) \notin SERVICE_TOOL_ALLOWED_DOMAINS THEN "domain"
        ELSE IF service.v \notin SERVICE_TOOL_ALLOWED_SERVICES THEN "service"
        ELSE "pass"

Started(i) == pc[i] # "idle"

\* invocation i has returned exactly the one result r
ReturnedOne(i) == pc[i] = "returned" /\ Len(results[i]) = 1

IsError(i) == ReturnedOne(i) /\ results[i][1].result = "error"

IsSuccess(i) == ReturnedOne(i) /\ results[i][1].result = "success"

ErrorContains(i, text) == IsError(i) /\ Contains(results[i][1].error, text)

CallsOf(i) == { c \in bus_calls : c.call = i }

\* C1: a call of hass.services.async_call has been issued only for a request
\* whose service is a string whose part before the first "." is an allowed
\* domain and which is, as a whole, an allowed service.
C1_DispatchOnlyIfAllowed ==
    \A c \in bus_calls :
        LET service == ServiceOf(c.call)
        IN  /\ service.t = "str"
            /\ BeforeFirstDot(service.v) \in SERVICE_TOOL_ALLOWED_DOMAINS
            /\ service.v \in SERVICE_TOOL_ALLOWED_SERVICES

\* C1 witness: one invocation has dispatched an allowed service while another,
\* asking for a service that is listed but whose domain is not allowed, and a
\* third kind, asking for an unlisted service of an allowed domain, got none.
C1_Witness ==
    /\ bus_calls # {}
    /\ \E i \in Calls :
          /\ pc[i] = "returned"
          /\ CallsOf(i) = {}
          /\ \/ cfg = "loose" /\ ServiceOf(i) = PyStr(<<"l", "o", "c", "k", ".", "u", "n", "l", "o", "c", "k">>)
             \/ ServiceOf(i) = PyStr(<<"l", "i", "g", "h", "t", ".", "d", "i", "m">>)

\* C2: async_call never raises to its caller: an invocation that has ended has
\* returned one result mapping whose result is "success" or "error".
C2_NeverRaises ==
    \A i \in Calls :
        /\ pc[i] # "raised"
        /\ pc[i] = "returned" =>
              /\ Len(results[i]) = 1
              /\ results[i][1].result \in { "success", "error" }

\* C3: an invocation that has run its checks has returned the error of the
\* first check its request fails (presence, format, domain, whole service, in
\* this order), and has reached dispatch exactly if the request fails none.
C3_FirstFailingCheckReported ==
    \A i \in Calls :
        Started(i) =>
            LET check == FirstFailingCheck(tool_args[i])
            IN  /\ check = "missing" => ErrorContains(i, <<"M", "i", "s", "s", "i", "n", "g", " ", "r", "e", "q", "u", "i", "r", "e", "d", " ", "p", "a", "r", "a", "m", "e", "t", "e", "r", "s">>)
                /\ check = "format" => ErrorContains(i, <<"I", "n", "v", "a", "l", "i", "d", " ", "s", "e", "r", "v", "i", "c", "e", " ", "f", "o", "r", "m", "a", "t">>)
                /\ check = "domain" =>
                      ErrorContains(i, <<"d", "o", "m", "a", "i", "n", " ", "'">> \o BeforeFirstDot(ServiceOf(i).v)
                                        \o <<"'", " ", "i", "s", " ", "n", "o", "t", " ", "a", "l", "l", "o", "w", "e", "d">>)
                /\ check = "service" =>
                      ErrorContains(i, <<"S", "e", "r", "v", "i", "c", "e", " ", "'">> \o ServiceOf(i).v
                                        \o <<"'", " ", "i", "s", " ", "n", "o", "t", " ", "a", "l", "l", "o", "w", "e", "d">>)
                /\ (check = "pass") <=> (CallsOf(i) # {})

\* C3 for the requests whose service, when present, is a string: the same
\* statement, which the code meets.
C3_StringServices ==
    \A i \in Calls :
        (Started(i) /\ ServiceOf(i).t # "int") =>
            LET check == FirstFailingCheck(tool_args[i])
            IN  /\ check = "missing" => ErrorContains(i, <<"M", "i", "s", "s", "i", "n", "g", " ", "r", "e", "q", "u", "i", "r", "e", "d", " ", "p", "a", "r", "a", "m", "e", "t", "e", "r", "s">>)
                /\ check = "format" => ErrorContains(i, <<"I", "n", "v", "a", "l", "i", "d", " ", "s", "e", "r", "v", "i", "c", "e", " ", "f", "o", "r", "m", "a", "t">>)
                /\ check = "domain" =>
                      ErrorContains(i, <<"d", "o", "m", "a", "i", "n", " ", "'">> \o BeforeFirstDot(ServiceOf(i).v)
                                        \o <<"'", " ", "i", "s", " ", "n", "o", "t", " ", "a", "l", "l", "o", "w", "e", "d">>)
                /\ check = "service" =>
                      ErrorContains(i, <<"S", "e", "r", "v", "i", "c", "e", " ", "'">> \o ServiceOf(i).v
                                        \o <<"'", " ", "i", "s", " ", "n", "o", "t", " ", "a", "l", "l", "o", "w", "e", "d">>)
                /\ (check = "pass") <=> (CallsOf(i) # {})

\* C4: for a request that passes validation the payload handed to
\* hass.services.async_call has exactly the entity-id key, bound to the
\* request's target_device, and the request's whitelisted keys, each with the
\* caller's value; every other key is dropped and the call is still made.
C4_PayloadIsWhitelistProjection ==
    \A i \in Calls :
        (Started(i) /\ FirstFailingCheck(tool_args[i]) = "pass") =>
            /\ CallsOf(i) # {}
            /\ \A c \in CallsOf(i) :
                  LET kept == { k \in DOMAIN tool_args[i] :
                                   k \in ALLOWED_SERVICE_CALL_ARGUMENTS }
                  IN  /\ DOMAIN c.service_data = { ATTR_ENTITY_ID } \cup kept
                      /\ c.service_data[ATTR_ENTITY_ID] = TargetOf(i)
                      /\ \A k \in kept : c.service_data[k] = tool_args[i][k]
                      /\ "service" \notin DOMAIN c.service_data
                      /\ "target_device" \notin DOMAIN c.service_data

\* C4 witness: a call was issued for a request carrying a whitelisted and an
\* unrecognised key.
C4_Witness ==
    \E c \in bus_calls :
        /\ "brightness" \in DOMAIN tool_args[c.call]
        /\ "unknown_key" \in DOMAIN tool_args[c.call]
        /\ "brightness" \in DOMAIN c.service_data

\* the success half of C5: a dispatch call that returned within the bound
\* gives a success result echoing service and target_device
SuccessEchoes(i) ==
    outcome[i] = "returned" =>
        /\ IsSuccess(i)
        /\ results[i][1].service = ServiceOf(i)
        /\ results[i][1].target = TargetOf(i)

OwnOutput(i) == << CallsOf(i), results[i], nDispatch[i], outcome[i], tool_args[i] >>

\* everything in the call and in the result of invocation i comes from its own
\* request and from the outcome of its own dispatch call
FromOwnRequest(i) ==
    /\ \A c \in CallsOf(i) :
          /\ c.domain \o << "." >> \o c.service = ServiceOf(i).v
          /\ DOMAIN c.service_data \subseteq { ATTR_ENTITY_ID } \cup DOMAIN tool_args[i]
          /\ c.service_data[ATTR_ENTITY_ID] = TargetOf(i)
          /\ \A k \in DOMAIN c.service_data \ { ATTR_ENTITY_ID } :
                c.service_data[k] = tool_args[i][k]
    /\ IsSuccess(i) <=> outcome[i] = "returned"
    /\ IsSuccess(i) =>
          /\ results[i][1].service = ServiceOf(i)
          /\ results[i][1].target = TargetOf(i)
    /\ (IsError(i) /\ outcome[i] # "none") =>
          Contains(results[i][1].error, <<"c", "a", "l", "l", "i", "n", "g", " ", "s", "e", "r", "v", "i", "c", "e", " ">> \o ServiceOf(i).v)

\* C8: concurrent invocations are independent: at every moment what an
\* invocation has dispatched and returned comes from its own request and its
\* own dispatch outcome, and a step that does not move an invocation leaves
\* what that invocation has given out as it was.
C8_Independent ==
    /\ [](\A i \in Calls : FromOwnRequest(i))
    /\ [][\A i \in Calls : pc'[i] = pc[i] => OwnOutput(i)' = OwnOutput(i)]_vars

\* C8 witness: an invocation has finished while another one, with a different
\* request, is suspended in its dispatch call.
C8_Witness ==
    \E i, j \in Calls :
        /\ pc[i] = "awaiting" /\ elapsed[i] > 0
        /\ pc[j] = "returned" /\ nDispatch[j] = 1
        /\ tool_args[i] # tool_args[j]

\* C9: the step in which the bound elapses returns the timeout error and
\* leaves the bus as it is: no command is taken back.
C9_TimeoutLeavesBus ==
    [][\A i \in Calls :
          (outcome[i] = "none" /\ outcome'[i] = "timeout") =>
              /\ bus_accepted' = bus_accepted
              /\ bus_calls' = bus_calls
              /\ pc'[i] = "returned"
              /\ results'[i] = << [result |-> "error",
                                   error |-> <<"T", "i", "m", "e", "o", "u", "t", " ", "c", "a", "l", "l", "i", "n", "g", " ", "s", "e", "r", "v", "i", "c", "e", " ">>
                                             \o ServiceOf(i).v
                                             \o <<" ", "(", "t", "o", "o", "k", " ", "m", "o", "r", "e", " ", "t", "h", "a", "n", " ", "5", " ", "s", "e", "c", "o", "n", "d", "s", ")">>] >>]_vars

\* C9 witness: an invocation has returned the timeout error and the host
\* holds its command.
C9_Witness ==
    \E i \in Calls :
        /\ outcome[i] = "timeout"
        /\ IsError(i)
        /\ \E c \in bus_accepted : c.call = i

\* occurrences of HOME_LLM_API_ID in the registry
Registered == Cardinality({ k \in DOMAIN llm_apis : llm_apis[k] = HOME_LLM_API_ID })

\* an entry whose setup has run its registration step
RanRegistration(e) == runtime_data[e]

\* C6: however many setups have run their registration step, for whichever
\* entries and however interleaved, the registry holds exactly one entry
\* with id HOME_LLM_API_ID (and none before the first).
C6_RegisteredOnce ==
    /\ Registered <= 1
    /\ (\E e \in Entries : RanRegistration(e)) <=> Registered = 1

\* C6 witness: the registration step has run for three entries, two of whose
\* setups are suspended at their await at the same time.
C6_Witness ==
    \E e1, e2, e3 \in Entries :
        /\ e1 # e2 /\ e2 # e3 /\ e1 # e3
        /\ setup_pc[e1] = "forward_entry_setups"
        /\ setup_pc[e2] = "forward_entry_setups"
        /\ entry_state[e3] = "loaded"
        /\ Registered = 1

\* C10: when no setup or unload of an entry is running, hass.data[DOMAIN]
\* holds the entry's id exactly if its setup has completed successfully and
\* it has not been successfully unloaded since.
C10_DataIffLoaded ==
    \A e \in Entries :
        setup_pc[e] = "idle" =>
            (e \in hass_data.entries <=> entry_state[e] \in { "loaded", "failed_unload" })
=============================================================================
